---- MODULE Spec2Model ----
(***************************************************************************)
(* A model of neo4j_transfer: the graph-copy engine (_copy_nodes,          *)
(* _copy_relationships and their batched creates), the transfer            *)
(* orchestrator and its generator variant, undo and the two target-reset   *)
(* functions.                                                              *)
(*                                                                         *)
(* A database is a pair of collections: nodes (element id, label set,      *)
(* property bag) and relationships (element id, type, start, end, property *)
(* bag).  The source keeps them in its native order (a sequence), which is *)
(* the order every SKIP/LIMIT page is cut from.  Each session.run is an    *)
(* auto-commit statement, so one loop iteration is one step.               *)
(***************************************************************************)
EXTENDS Integers, Sequences, FiniteSets

(***************************************************************************)
(* Bounds of the model.                                                    *)
(***************************************************************************)
\* A graph has at most MaxSize nodes and relationships together.
MaxSize == 4
MaxBatch == 2

(***************************************************************************)
(* Values.                                                                 *)
(***************************************************************************)
Null == <<"NULL", <<>>>>

\* A Cypher STRING value; s is the text as a sequence of numbers.
Str(s) == <<"STRING", s>>

\* A Cypher DATETIME value (a native temporal value, not a string).
DateTimeValue(dt) == <<"DATETIME", <<dt.day, dt.micro>>>>

\* datetime.isoformat(): the fractional part is printed only when the
\* microsecond is not zero.
isoformat(dt) == IF dt.micro = 0 THEN <<dt.day>> ELSE <<dt.day, dt.micro>>

T1 == [day |-> 1, micro |-> 0]
T2 == [day |-> 1, micro |-> 5]
Timestamps == {T1, T2}

\* A property bag is a set of <<key, value>> pairs with distinct keys.
NoProps == {}
GetProp(props, key) ==
    IF \E p \in props : p[1] = key
    THEN (CHOOSE p \in props : p[1] = key)[2]
    ELSE Null

\* Cypher equality of a property with a parameter: null equals nothing.
CypherEq(a, b) == a # Null /\ b # Null /\ a = b

Min(a, b) == IF a < b THEN a ELSE b

(***************************************************************************)
(* TransferSpec (models.py) and the attributes transfer() reads off it.    *)
(***************************************************************************)
timestamp_key_default == "_transfer_timestamp"

\* batch_size of a spec object that has no such attribute: the TransferSpec
\* of models.py declares none, so spec.batch_size raises AttributeError.
Absent == 0

LabelFilters == {<<>>, <<"Person">>}
TypeFilters == {<<>>, <<"KNOWS">>}
BatchSizes == 1..MaxBatch

TransferSpec ==
    [timestamp_key : {timestamp_key_default},
     timestamp : {T1},
     node_labels : LabelFilters,
     relationship_types : TypeFilters,
     batch_size : {Absent} \cup BatchSizes,
     reset_target : BOOLEAN]

SeqToSet(s) == {s[i] : i \in 1..Len(s)}

(***************************************************************************)
(* The source graphs the model draws from.                                 *)
(***************************************************************************)
\* A node with two labels that an earlier transfer, at T2, tagged, and a node
\* without labels.
NodeKinds ==
    {[labels |-> {"Person", "Movie"},
      props |-> {<<timestamp_key_default, Str(isoformat(T2))>>}],
     [labels |-> {}, props |-> {<<"name", Str(<<7>>)>>}]}

RelKinds ==
    {[type |-> "KNOWS", props |-> {<<"since", Str(<<9>>)>>}],
     [type |-> "LIKES", props |-> NoProps]}

SeqsUpTo(S, n) == UNION {[1..k -> S] : k \in 0..n}

\* Source nodes in native order; the element id is assigned by the database.
SourceNodes ==
    {[i \in 1..Len(ks) |-> [eid |-> i, labels |-> ks[i].labels, props |-> ks[i].props]] :
        ks \in SeqsUpTo(NodeKinds, MaxSize)}

SourceRels(nodes) ==
    SeqsUpTo({[type |-> k.type, start |-> a, end |-> b, props |-> k.props] :
                 k \in RelKinds, a \in 1..Len(nodes), b \in 1..Len(nodes)},
             MaxSize - Len(nodes))


\* Target-side data that exists before the transfer (an earlier run); a
\* transfer into an empty target is the one that resets the target first.
PriorTargets ==
    {[nodes |-> {[eid |-> 1, labels |-> {"Person"},
                  props |-> {<<timestamp_key_default, Str(isoformat(T1))>>}],
                 [eid |-> 2, labels |-> {"Movie"},
                  props |-> {<<timestamp_key_default, DateTimeValue(T1)>>}]},
      rels |-> {[eid |-> 1, type |-> "KNOWS", start |-> 1, end |-> 2, props |-> NoProps]}]}

MaxEid(S) == IF S = {} THEN 0 ELSE CHOOSE m \in {x.eid : x \in S} : \A x \in S : x.eid <= m

VARIABLES
    srcNodes,          \* the source's nodes, in native order
    srcRels,           \* the source's relationships, in native order
    rowTypes,          \* the type column of the row the source's driver returns
                       \* for each relationship: type(r) AS type
    spec,              \* the spec object handed to transfer()
    prior,             \* the target's nodes and relationships at the start
    tgtNodes,          \* the target's nodes
    tgtRels,           \* the target's relationships
    tgtConstraints,    \* names listed by SHOW CONSTRAINTS on the target
    tgtIndexes,        \* names listed by SHOW INDEXES on the target
    nextNodeId,        \* next element id the target gives to a node
    nextRelId,         \* next element id the target gives to a relationship
    pc,                \* position of the running call; "idle" when none runs
    caller,            \* which function runs the reset statements
    batch_size,        \* batch_size argument of the running reset
    drivers,           \* drivers that are open
    id_map,            \* _copy_nodes: source element id -> target element id
    skip,              \* SKIP of the next page
    all_relationships, \* _copy_relationships: descriptors of what was created
    deleted_count,     \* deletedNodesCount / deletedCount of the last delete
    lastUndo,          \* the spec of the last undo() call, and whether the call
                       \* before it was undo() with the same spec
    started,           \* transfer() has been called
    lastOp,            \* outcome of the last call that returned or raised
    result,            \* the UploadResult returned by transfer()
    variant,           \* "transfer" or "generator" (transfer_generator)
    yields,            \* the UploadResults transfer_generator has yielded
    error,             \* the last exception a call raised, "none" if none
    queries,           \* the statements issued to the two databases
    fetched            \* rows the source returned to the running copy loop

vars == <<srcNodes, srcRels, rowTypes, spec, prior, tgtNodes, tgtRels, tgtConstraints, tgtIndexes,
          nextNodeId, nextRelId, pc, caller, batch_size, drivers, id_map, skip,
          all_relationships, deleted_count, lastUndo, started, lastOp, result,
          variant, yields, error, queries, fetched>>

srcVars == <<srcNodes, srcRels, rowTypes, spec, prior, variant>>

\* type(r) as a consistent driver returns it: the type the source has stored.
StoredTypes(rels) == [i \in 1..Len(rels) |-> rels[i].type]
tgtData == <<tgtNodes, tgtRels, nextNodeId, nextRelId>>
tgtSchema == <<tgtConstraints, tgtIndexes>>
copyVars == <<id_map, skip, all_relationships, fetched>>

NoResult == [was_successful |-> FALSE, records_total |-> 0, records_completed |-> 0,
             nodes_created |-> 0, relationships_created |-> 0, finished |-> FALSE]

\* The specs undo() is called with.
UndoSpecs == [timestamp_key : {timestamp_key_default}, timestamp : Timestamps]

NoUndo == [spec |-> [timestamp_key |-> "", timestamp |-> T1], again |-> FALSE]

Init ==
    /\ srcNodes \in SourceNodes
    /\ srcRels \in SourceRels(srcNodes)
    /\ rowTypes = StoredTypes(srcRels)
    /\ spec \in TransferSpec
    /\ prior \in PriorTargets
    /\ tgtNodes = prior.nodes
    /\ tgtRels = prior.rels
    /\ nextNodeId = MaxEid(prior.nodes) + 1
    /\ nextRelId = MaxEid(prior.rels) + 1
    /\ tgtConstraints = {"person_name_unique"}
    /\ tgtIndexes = {"movie_title"}
    /\ pc = "idle"
    /\ caller = "none"
    /\ batch_size = 1
    /\ drivers = {}
    /\ id_map = <<>>
    /\ skip = 0
    /\ all_relationships = <<>>
    /\ deleted_count = 0
    /\ lastUndo = NoUndo
    /\ started = FALSE
    /\ lastOp = "none"
    /\ result = NoResult
    /\ variant = "transfer"
    /\ yields = <<>>
    /\ error = "none"
    /\ queries = {}
    /\ fetched = [nodes |-> 0, rels |-> 0]

(***************************************************************************)
(* _safe_label and the batched creates.                                    *)
(***************************************************************************)
\* The names of the model in the order sorted() gives them; "My Label" and
\* "HAS-A" are legal names of the database that are no Python identifiers.
Names == <<"HAS-A", "KNOWS", "LIKES", "Movie", "My Label", "Person">>

sorted(S) == SelectSeq(Names, LAMBDA x : x \in S)

\* str.isidentifier() on the names of the model.
isidentifier(name) == name \in {"Person", "Movie", "KNOWS", "LIKES"}

\* A fragment of the text of a statement: text of the template, a name that
\* _safe_label returned (between backticks), a value that an f-string put
\* between the backticks of the template, or a value that an f-string put
\* into the text as it was.
Text(s) == [kind |-> "text", s |-> s]
Identifier(s) == [kind |-> "identifier", s |-> s]
Quoted(s) == [kind |-> "quoted", s |-> s]
Raw(s) == [kind |-> "raw", s |-> s]

\* _safe_label raises ValueError for a name that is no identifier.
ValueError(name) == [kind |-> "ValueError", s |-> name]

_safe_label(name) == IF isidentifier(name) THEN Identifier(name) ELSE ValueError(name)

\* session.run(text, **params) on one of the two databases.
Statement(db, text, params) == [db |-> db, text |-> text, params |-> params]

\* Lines 38-43.
CreateNodesQuery(labels) ==
    Statement("target",
              <<Text("UNWIND $batch AS row CREATE (n")>>
                  \o [i \in 1..Len(labels) |-> _safe_label(labels[i])]
                  \o <<Text(") SET n = row.props RETURN elementId(n) AS new_id, row.eid AS old_id")>>,
              {"batch"})

\* Lines 58-65.
CreateRelsQuery(rel_type) ==
    Statement("target",
              <<Text("UNWIND $batch AS row MATCH (a) WHERE elementId(a) = row.start MATCH (b) WHERE elementId(b) = row.end CREATE (a)-[r:"),
                _safe_label(rel_type),
                Text("]->(b) SET r = row.props RETURN elementId(r) AS rel_id, type(r) AS rel_type, elementId(a) AS start_id, elementId(b) AS end_id")>>,
              {"batch"})

\* Lines 88-105.
FetchNodesQuery(labels) ==
    IF labels # <<>>
    THEN Statement("source",
                   <<Text("MATCH (n) WHERE any(label IN labels(n) WHERE label IN $labels) WITH n SKIP $skip LIMIT $limit RETURN elementId(n) AS eid, labels(n) AS labels, properties(n) AS props")>>,
                   {"skip", "limit", "labels"})
    ELSE Statement("source",
                   <<Text("MATCH (n) WITH n SKIP $skip LIMIT $limit RETURN elementId(n) AS eid, labels(n) AS labels, properties(n) AS props")>>,
                   {"skip", "limit"})

\* Lines 130-147.
FetchRelsQuery(types) ==
    IF types # <<>>
    THEN Statement("source",
                   <<Text("MATCH (a)-[r]->(b) WHERE type(r) IN $types WITH r, a, b SKIP $skip LIMIT $limit RETURN type(r) AS type, elementId(a) AS start, elementId(b) AS end, properties(r) AS props")>>,
                   {"skip", "limit", "types"})
    ELSE Statement("source",
                   <<Text("MATCH (a)-[r]->(b) WITH r, a, b SKIP $skip LIMIT $limit RETURN type(r) AS type, elementId(a) AS start, elementId(b) AS end, properties(r) AS props")>>,
                   {"skip", "limit"})

\* Lines 367-373.
UndoQuery(timestamp_key) ==
    Statement("target",
              <<Text("MATCH (n) WHERE n."), Quoted(timestamp_key),
                Text(" = $datetime DETACH DELETE n RETURN count(n) as deletedCount")>>,
              {"datetime"})

\* Lines 179-183 and 444-453.
ShowConstraintsQuery == Statement("target", <<Text("SHOW CONSTRAINTS")>>, {})

DropConstraintQuery(name) ==
    Statement("target", <<Text("DROP CONSTRAINT "), Raw(name)>>, {})

\* Lines 186-190 and 465-472.
ShowIndexesQuery == Statement("target", <<Text("SHOW INDEXES")>>, {})

DropIndexQuery(name) ==
    Statement("target", <<Text("DROP INDEX "), Raw(name), Text(" IF EXISTS")>>, {})

\* Lines 195-201 and 489-496.
DeleteBatchQuery ==
    Statement("target",
              <<Text("MATCH (n) OPTIONAL MATCH (n)-[r]-() WITH n, r LIMIT $batch_size DELETE n, r RETURN count(n) as deletedNodesCount")>>,
              {"batch_size"})

RECURSIVE Dedup(_)
\* The distinct elements of s in the order of their first occurrence: the
\* key order of a dict filled by appending.
Dedup(s) ==
    IF s = <<>> THEN <<>>
    ELSE LET front == SubSeq(s, 1, Len(s) - 1)
             d == Dedup(front)
         IN IF s[Len(s)] \in SeqToSet(front) THEN d ELSE Append(d, s[Len(s)])

MapPut(m, k, v) == [x \in (DOMAIN m) \cup {k} |-> IF x = k THEN v ELSE m[x]]

\* Mutant of MapGet: id_map.get(k, k), the source id stands in for a missing
\* entry.
MapGetOrKey(m, k) == IF k \in DOMAIN m THEN m[k] ELSE k

\* id_map.get(k): None (falsy) when k is no key.
None == 0
MapGet(m, k) == IF k \in DOMAIN m THEN m[k] ELSE None

RECURSIVE RunCreateNodesNoProps(_, _, _)
\* Mutant of RunCreateNodes: the statement without SET n = row.props.
RunCreateNodesNoProps(st, labels, batch) ==
    IF batch = <<>> THEN st
    ELSE LET row == Head(batch)
             n == [eid |-> st.next, labels |-> labels, props |-> NoProps]
         IN RunCreateNodesNoProps([st EXCEPT !.nodes = @ \cup {n},
                                             !.next = @ + 1,
                                             !.id_map = MapPut(@, row.eid, n.eid)],
                                  labels, Tail(batch))

RECURSIVE RunCreateNodes(_, _, _)
\* One UNWIND $batch ... CREATE (n:labels) SET n = row.props statement, and
\* the loop over its records that fills id_map.
RunCreateNodes(st, labels, batch) ==
    IF batch = <<>> THEN st
    ELSE LET row == Head(batch)
             n == [eid |-> st.next, labels |-> labels, props |-> row.props]
         IN RunCreateNodes([st EXCEPT !.nodes = @ \cup {n},
                                      !.next = @ + 1,
                                      !.id_map = MapPut(@, row.eid, n.eid)],
                           labels, Tail(batch))

RECURSIVE CreateNodeGroupsUnchecked(_, _, _)
\* Mutant of CreateNodeGroups: the labels go into the statement as they are.
CreateNodeGroupsUnchecked(keys, rows, st) ==
    IF keys = <<>> THEN st
    ELSE LET labels == Head(keys)
             batch == SelectSeq(rows, LAMBDA r : r.labels = labels)
             names == sorted(labels)
             q == Statement("target",
                            <<Text("UNWIND $batch AS row CREATE (n")>>
                                \o [i \in 1..Len(names) |-> Raw(names[i])]
                                \o <<Text(") SET n = row.props RETURN elementId(n) AS new_id, row.eid AS old_id")>>,
                            {"batch"})
         IN CreateNodeGroupsUnchecked(Tail(keys), rows,
                                      RunCreateNodes([st EXCEPT !.queries = @ \cup {q}],
                                                     labels, batch))

RECURSIVE CreateNodeGroups(_, _, _)
\* Lines 36-45: one create statement per label set, in the order in which
\* the label sets first occur in the page.
CreateNodeGroups(keys, rows, st) ==
    IF keys = <<>> THEN st
    ELSE LET labels == Head(keys)
             batch == SelectSeq(rows, LAMBDA r : r.labels = labels)
         IN IF \E l \in labels : _safe_label(l) = ValueError(l)
            THEN [st EXCEPT !.ok = FALSE]
            ELSE CreateNodeGroups(Tail(keys), rows,
                                  RunCreateNodes([st EXCEPT !.queries = @ \cup {CreateNodesQuery(sorted(labels))}],
                                                 labels, batch))

_batch_create_nodes(nodes, next, rows, map) ==
    CreateNodeGroups(Dedup([i \in 1..Len(rows) |-> rows[i].labels]), rows,
                     [nodes |-> nodes, next |-> next, id_map |-> map, ok |-> TRUE,
                      queries |-> {}])

RECURSIVE RunCreateRels(_, _, _)
\* One UNWIND $batch ... MATCH (a) ... MATCH (b) ... CREATE (a)-[r:type]->(b)
\* SET r = row.props statement: a row whose MATCH finds no node yields nothing.
RunCreateRels(st, rel_type, batch) ==
    IF batch = <<>> THEN st
    ELSE LET row == Head(batch)
             found == /\ \E a \in st.nodes : a.eid = row.start
                      /\ \E b \in st.nodes : b.eid = row.end
             r == [eid |-> st.next, type |-> rel_type, start |-> row.start,
                   end |-> row.end, props |-> row.props]
             d == [rel_id |-> r.eid, type |-> r.type, start_node |-> r.start,
                   end_node |-> r.end]
         IN IF found
            THEN RunCreateRels([st EXCEPT !.rels = @ \cup {r},
                                          !.next = @ + 1,
                                          !.relationships = Append(@, d)],
                               rel_type, Tail(batch))
            ELSE RunCreateRels(st, rel_type, Tail(batch))

RECURSIVE CreateRelGroups(_, _, _)
CreateRelGroups(keys, rows, st) ==
    IF keys = <<>> THEN st
    ELSE LET rel_type == Head(keys)
             batch == SelectSeq(rows, LAMBDA r : r.type = rel_type)
         IN IF _safe_label(rel_type) = ValueError(rel_type)
            THEN [st EXCEPT !.ok = FALSE]
            ELSE CreateRelGroups(Tail(keys), rows,
                                 RunCreateRels([st EXCEPT !.queries = @ \cup {CreateRelsQuery(rel_type)}],
                                               rel_type, batch))

_batch_create_relationships(nodes, rels, next, rows) ==
    CreateRelGroups(Dedup([i \in 1..Len(rows) |-> rows[i].type]), rows,
                    [nodes |-> nodes, rels |-> rels, next |-> next,
                     relationships |-> <<>>, ok |-> TRUE, queries |-> {}])

(***************************************************************************)
(* The paginated source queries.                                           *)
(***************************************************************************)
\* rows SKIP skip LIMIT limit
Page(rows, sk, limit) == SubSeq(rows, sk + 1, Min(sk + limit, Len(rows)))

\* WHERE any(label IN labels(n) WHERE label IN $labels); no WHERE at all when
\* the filter is empty or None.
NodeMatches(n, labels) == labels = <<>> \/ n.labels \cap SeqToSet(labels) # {}

\* Mutant of FetchNodes: SKIP and LIMIT cut the page before the label filter
\* is applied.
FetchNodesFilterAfterPage(labels, sk, limit) ==
    SelectSeq(Page(srcNodes, sk, limit), LAMBDA n : NodeMatches(n, labels))

FetchNodes(labels, sk, limit) ==
    Page(SelectSeq(srcNodes, LAMBDA n : NodeMatches(n, labels)), sk, limit)

\* WHERE type(r) IN $types; no WHERE when the filter is empty or None.
RelMatches(r, types) == types = <<>> \/ r.type \in SeqToSet(types)

\* Lines 130-147: the WHERE clause reads the stored type; the type of the row
\* is the column the driver returns for it.
FetchRels(types, sk, limit) ==
    LET rows == [i \in 1..Len(srcRels) |-> [r |-> srcRels[i], type |-> rowTypes[i]]]
        matched == SelectSeq(rows, LAMBDA x : RelMatches(x.r, types))
    IN Page([i \in 1..Len(matched) |-> [matched[i].r EXCEPT !.type = matched[i].type]],
            sk, limit)

\* Mutant of ResolveRows: the two endpoints change places.
ResolveRowsSwapped(page, map) ==
    LET resolved == [i \in 1..Len(page) |->
                        [type |-> page[i].type,
                         start |-> MapGet(map, page[i].end),
                         end |-> MapGet(map, page[i].start),
                         props |-> page[i].props]]
    IN SelectSeq(resolved, LAMBDA row : row.start # None /\ row.end # None)

\* Lines 149-159: the rows of a page whose two endpoints are in id_map.
ResolveRows(page, map) ==
    LET resolved == [i \in 1..Len(page) |->
                        [type |-> page[i].type,
                         start |-> MapGet(map, page[i].start),
                         end |-> MapGet(map, page[i].end),
                         props |-> page[i].props]]
    IN SelectSeq(resolved, LAMBDA row : row.start # None /\ row.end # None)


(***************************************************************************)
(* transfer(): lines 226-271.                                              *)
(***************************************************************************)
\* The call raised: the finally clause has closed the drivers.
Raise(op, err) ==
    /\ pc' = "idle"
    /\ lastOp' = op
    /\ drivers' = {}
    /\ error' = err

\* Mutant of TransferStart: reset_target is not looked at.
TransferStartNoReset ==
    /\ pc = "idle"
    /\ ~started
    /\ started' = TRUE
    /\ pc' = "open"
    /\ UNCHANGED <<caller, batch_size, drivers, lastOp, error>>
    /\ UNCHANGED <<srcVars, tgtData, tgtSchema, copyVars, deleted_count, lastUndo, result,
                   yields, queries>>

\* Lines 226-233: both credentials validate; when the spec asks for it the
\* target is reset first, which reads spec.batch_size.
TransferStart ==
    /\ pc = "idle"
    /\ ~started
    /\ started' = TRUE
    /\ IF spec.reset_target
       THEN IF spec.batch_size = Absent
            THEN Raise("transfer_raised", "AttributeError") /\ UNCHANGED <<caller, batch_size>>
            ELSE /\ pc' = "reset_constraints"
                 /\ caller' = "transfer"
                 /\ batch_size' = spec.batch_size
                 /\ drivers' = {"reset"}
                 /\ UNCHANGED <<lastOp, error>>
       ELSE /\ pc' = "open"
            /\ UNCHANGED <<caller, batch_size, drivers, lastOp, error>>
    /\ UNCHANGED <<srcVars, tgtData, tgtSchema, copyVars, deleted_count, lastUndo, result,
                   yields, queries>>

\* Lines 235-250: both drivers and sessions are opened; the call of
\* _copy_nodes reads spec.batch_size.
TransferOpen ==
    /\ pc = "open"
    /\ IF spec.batch_size = Absent
       THEN Raise("transfer_raised", "AttributeError") /\ UNCHANGED copyVars
       ELSE /\ pc' = "copy_nodes"
            /\ drivers' = {"src", "tgt"}
            /\ id_map' = <<>>
            /\ skip' = 0
            /\ fetched' = [nodes |-> 0, rels |-> 0]
            /\ UNCHANGED <<all_relationships, lastOp, error>>
    /\ UNCHANGED <<srcVars, tgtData, tgtSchema, caller, batch_size, deleted_count,
                   lastUndo, started, result, yields, queries>>

\* Lines 86-113, a page with rows: one iteration of the loop of _copy_nodes.
CopyNodesPage ==
    /\ pc = "copy_nodes"
    /\ LET batch == FetchNodes(spec.node_labels, skip, spec.batch_size)
           st == _batch_create_nodes(tgtNodes, nextNodeId, batch, id_map)
       IN /\ batch # <<>>
          /\ tgtNodes' = st.nodes
          /\ nextNodeId' = st.next
          /\ id_map' = st.id_map
          /\ queries' = queries \cup {FetchNodesQuery(spec.node_labels)} \cup st.queries
          /\ fetched' = [fetched EXCEPT !.nodes = @ + Len(batch)]
          /\ IF st.ok
             THEN /\ skip' = skip + spec.batch_size
                  /\ UNCHANGED <<pc, lastOp, drivers, error>>
             ELSE Raise("transfer_raised", "ValueError") /\ UNCHANGED skip
    /\ UNCHANGED <<srcVars, tgtRels, nextRelId, tgtSchema, caller, batch_size,
                   all_relationships, deleted_count, lastUndo, started, result, yields>>

\* Lines 107-109, 115 and 251-255: the page is empty, _copy_nodes returns
\* id_map and transfer calls _copy_relationships.
CopyNodesDone ==
    /\ pc = "copy_nodes"
    /\ variant = "transfer"
    /\ FetchNodes(spec.node_labels, skip, spec.batch_size) = <<>>
    /\ pc' = "copy_rels"
    /\ skip' = 0
    /\ all_relationships' = <<>>
    /\ queries' = queries \cup {FetchNodesQuery(spec.node_labels)}
    /\ UNCHANGED <<srcVars, tgtData, tgtSchema, caller, batch_size, drivers, id_map,
                   fetched, deleted_count, lastUndo, started, lastOp, result, yields,
                   error>>

\* Mutant of CopyRelsPage: the ids of the created relationships are entered
\* into id_map beside those of the nodes.
CopyRelsPageWritesMap ==
    /\ pc = "copy_rels"
    /\ LET page == FetchRels(spec.relationship_types, skip, spec.batch_size)
           batch == ResolveRows(page, id_map)
           st == _batch_create_relationships(tgtNodes, tgtRels, nextRelId, batch)
       IN /\ batch # <<>>
          /\ tgtRels' = st.rels
          /\ nextRelId' = st.next
          /\ queries' = queries \cup {FetchRelsQuery(spec.relationship_types)} \cup st.queries
          /\ fetched' = [fetched EXCEPT !.rels = @ + Len(page)]
          /\ id_map' = IF st.relationships = <<>> THEN id_map
                       ELSE MapPut(id_map, st.relationships[1].start_node,
                                   st.relationships[1].rel_id)
          /\ IF st.ok
             THEN /\ all_relationships' = all_relationships \o st.relationships
                  /\ skip' = skip + spec.batch_size
                  /\ UNCHANGED <<pc, lastOp, drivers, error>>
             ELSE Raise("transfer_raised", "ValueError") /\ UNCHANGED <<all_relationships, skip>>
    /\ UNCHANGED <<srcVars, tgtNodes, nextNodeId, tgtSchema, caller, batch_size,
                   deleted_count, lastUndo, started, result, yields>>

\* Lines 128-167, a batch with rows: one iteration of the loop of
\* _copy_relationships.
CopyRelsPage ==
    /\ pc = "copy_rels"
    /\ LET page == FetchRels(spec.relationship_types, skip, spec.batch_size)
           batch == ResolveRows(page, id_map)
           st == _batch_create_relationships(tgtNodes, tgtRels, nextRelId, batch)
       IN /\ batch # <<>>
          /\ tgtRels' = st.rels
          /\ nextRelId' = st.next
          /\ queries' = queries \cup {FetchRelsQuery(spec.relationship_types)} \cup st.queries
          /\ fetched' = [fetched EXCEPT !.rels = @ + Len(page)]
          /\ IF st.ok
             THEN /\ all_relationships' = all_relationships \o st.relationships
                  /\ skip' = skip + spec.batch_size
                  /\ UNCHANGED <<pc, lastOp, drivers, error>>
             ELSE Raise("transfer_raised", "ValueError") /\ UNCHANGED <<all_relationships, skip>>
    /\ UNCHANGED <<srcVars, tgtNodes, nextNodeId, tgtSchema, caller, batch_size, id_map,
                   deleted_count, lastUndo, started, result, yields>>

\* Mutant of UploadResult: the totals count the nodes only, as in the
\* progress result of the generator.
UploadResultNodesOnly(map, relationships) ==
    [was_successful |-> TRUE,
     records_total |-> Cardinality(DOMAIN map),
     records_completed |-> Cardinality(DOMAIN map),
     nodes_created |-> Cardinality(DOMAIN map),
     relationships_created |-> Len(relationships),
     finished |-> TRUE]

\* len(id_map) and len(all_relationships) as transfer reports them, lines
\* 258-268.
UploadResult(map, relationships) ==
    [was_successful |-> TRUE,
     records_total |-> Cardinality(DOMAIN map) + Len(relationships),
     records_completed |-> Cardinality(DOMAIN map) + Len(relationships),
     nodes_created |-> Cardinality(DOMAIN map),
     relationships_created |-> Len(relationships),
     finished |-> TRUE]

\* Lines 161-162, 169 and 256-271: the batch is empty, _copy_relationships
\* returns and transfer returns the UploadResult.
CopyRelsDone ==
    /\ pc = "copy_rels"
    /\ variant = "transfer"
    /\ LET page == FetchRels(spec.relationship_types, skip, spec.batch_size)
       IN /\ ResolveRows(page, id_map) = <<>>
          /\ fetched' = [fetched EXCEPT !.rels = @ + Len(page)]
    /\ pc' = "idle"
    /\ lastOp' = "transfer"
    /\ drivers' = {}
    /\ result' = UploadResult(id_map, all_relationships)
    /\ queries' = queries \cup {FetchRelsQuery(spec.relationship_types)}
    /\ UNCHANGED <<srcVars, tgtData, tgtSchema, caller, batch_size, id_map, skip,
                   all_relationships, deleted_count, lastUndo, started, yields, error>>


(***************************************************************************)
(* transfer_generator(): lines 288-349.  Its first next() runs the same    *)
(* steps as transfer() up to the end of _copy_nodes.                        *)
(***************************************************************************)
\* Lines 317-327: the UploadResult of the first yield.
ProgressResult(map) ==
    [was_successful |-> TRUE,
     records_total |-> Cardinality(DOMAIN map),
     records_completed |-> Cardinality(DOMAIN map),
     nodes_created |-> Cardinality(DOMAIN map),
     relationships_created |-> 0,
     finished |-> FALSE]

\* Mutant of GenYieldNodes: the progress is yielded, and the node copy left,
\* without waiting for the empty page.
GenYieldNodesEarly ==
    /\ pc = "copy_nodes"
    /\ variant = "generator"
    /\ pc' = "yield_nodes"
    /\ yields' = Append(yields, ProgressResult(id_map))
    /\ queries' = queries \cup {FetchNodesQuery(spec.node_labels)}
    /\ UNCHANGED <<srcVars, tgtData, tgtSchema, caller, batch_size, drivers, copyVars,
                   deleted_count, lastUndo, started, lastOp, result, error>>

\* Lines 107-109, 115 and 313-327: the page is empty, _copy_nodes returns
\* and the generator yields the progress.
GenYieldNodes ==
    /\ pc = "copy_nodes"
    /\ variant = "generator"
    /\ FetchNodes(spec.node_labels, skip, spec.batch_size) = <<>>
    /\ pc' = "yield_nodes"
    /\ yields' = Append(yields, ProgressResult(id_map))
    /\ queries' = queries \cup {FetchNodesQuery(spec.node_labels)}
    /\ UNCHANGED <<srcVars, tgtData, tgtSchema, caller, batch_size, drivers, copyVars,
                   deleted_count, lastUndo, started, lastOp, result, error>>

\* Lines 329-331: the consumer asks for the next result and the generator
\* calls _copy_relationships.
GenResume ==
    /\ pc = "yield_nodes"
    /\ pc' = "copy_rels"
    /\ skip' = 0
    /\ all_relationships' = <<>>
    /\ UNCHANGED <<srcVars, tgtData, tgtSchema, caller, batch_size, drivers, id_map,
                   fetched, deleted_count, lastUndo, started, lastOp, result, yields,
                   error, queries>>

\* Lines 161-162, 169 and 332-346: the batch is empty, _copy_relationships
\* returns and the generator yields the final result.
GenYieldFinal ==
    /\ pc = "copy_rels"
    /\ variant = "generator"
    /\ LET page == FetchRels(spec.relationship_types, skip, spec.batch_size)
       IN /\ ResolveRows(page, id_map) = <<>>
          /\ fetched' = [fetched EXCEPT !.rels = @ + Len(page)]
    /\ pc' = "yield_final"
    /\ yields' = Append(yields, UploadResult(id_map, all_relationships))
    /\ queries' = queries \cup {FetchRelsQuery(spec.relationship_types)}
    /\ UNCHANGED <<srcVars, tgtData, tgtSchema, caller, batch_size, drivers, id_map, skip,
                   all_relationships, deleted_count, lastUndo, started, lastOp, result,
                   error>>

\* Lines 347-349: the consumer asks for a third result; the body ends, the
\* finally clause closes the drivers and StopIteration ends the iteration.
GenFinish ==
    /\ pc = "yield_final"
    /\ pc' = "idle"
    /\ lastOp' = "transfer"
    /\ drivers' = {}
    /\ UNCHANGED <<srcVars, tgtData, tgtSchema, caller, batch_size, copyVars,
                   deleted_count, lastUndo, started, result, yields, error, queries>>

\* Lines 347-349: the consumer closes, or drops, the generator while it is
\* suspended at a yield; GeneratorExit is raised there and the finally clause
\* closes the drivers.
GenClose ==
    /\ pc \in {"yield_nodes", "yield_final"}
    /\ pc' = "idle"
    /\ lastOp' = "generator_closed"
    /\ drivers' = {}
    /\ UNCHANGED <<srcVars, tgtData, tgtSchema, caller, batch_size, copyVars,
                   deleted_count, lastUndo, started, result, yields, error, queries>>

(***************************************************************************)
(* The same calls against databases that fail: a connection that cannot be *)
(* made and a statement that the database rejects raise out of the call.   *)
(***************************************************************************)
\* Mutant of ValidateFails: the credentials are validated after the reset.
ValidateFailsAfterReset ==
    /\ pc = "open"
    /\ \E e \in {"SourceUnavailable", "TargetUnavailable"} : Raise("transfer_raised", e)
    /\ UNCHANGED <<srcVars, tgtData, tgtSchema, caller, batch_size, copyVars,
                   deleted_count, lastUndo, started, result, yields, queries>>

\* Lines 226-227 (288-289) and n4j.py 8-12: verify_connectivity raises for
\* the source, or for the target after the source has been verified.
ValidateFails ==
    /\ pc = "idle"
    /\ ~started
    /\ started' = TRUE
    /\ \E e \in {"SourceUnavailable", "TargetUnavailable"} : Raise("transfer_raised", e)
    /\ UNCHANGED <<srcVars, tgtData, tgtSchema, caller, batch_size, copyVars,
                   deleted_count, lastUndo, result, yields, queries>>

\* Lines 235-242 (297-304): src_driver is made and GraphDatabase.driver
\* raises for the target; the try statement has not been entered.
OpenFails ==
    /\ pc = "open"
    /\ pc' = "idle"
    /\ lastOp' = "transfer_raised"
    /\ error' = "DriverError"
    /\ drivers' = {"src"}
    /\ UNCHANGED <<srcVars, tgtData, tgtSchema, caller, batch_size, copyVars,
                   deleted_count, lastUndo, started, result, yields, queries>>

\* Lines 88-105 and 130-147: the source rejects the page query.
SourceFails ==
    /\ pc \in {"copy_nodes", "copy_rels"}
    /\ queries' = queries \cup {IF pc = "copy_nodes"
                                THEN FetchNodesQuery(spec.node_labels)
                                ELSE FetchRelsQuery(spec.relationship_types)}
    /\ Raise("transfer_raised", "Neo4jError")
    /\ UNCHANGED <<srcVars, tgtData, tgtSchema, caller, batch_size, copyVars,
                   deleted_count, lastUndo, started, result, yields>>

\* Mutant of CreateNodesFails: the failure takes back what the transfer has
\* created so far.
CreateNodesFailsRollsBack ==
    /\ pc = "copy_nodes"
    /\ FetchNodes(spec.node_labels, skip, spec.batch_size) # <<>>
    /\ tgtNodes' = {n \in tgtNodes : \A s \in DOMAIN id_map : id_map[s] # n.eid}
    /\ queries' = queries \cup {FetchNodesQuery(spec.node_labels)}
    /\ Raise("transfer_raised", "Neo4jError")
    /\ UNCHANGED <<srcVars, tgtRels, nextNodeId, nextRelId, tgtSchema, caller, batch_size,
                   copyVars, deleted_count, lastUndo, started, result, yields>>

\* Lines 36-45: the target rejects the create statement of group k of the
\* page; the statements of the groups before it have been committed.
CreateNodesFails ==
    /\ pc = "copy_nodes"
    /\ LET batch == FetchNodes(spec.node_labels, skip, spec.batch_size)
           keys == Dedup([i \in 1..Len(batch) |-> batch[i].labels])
       IN /\ batch # <<>>
          /\ \E k \in 1..Len(keys) :
                LET st == CreateNodeGroups(SubSeq(keys, 1, k - 1), batch,
                                           [nodes |-> tgtNodes, next |-> nextNodeId,
                                            id_map |-> id_map, ok |-> TRUE, queries |-> {}])
                IN /\ st.ok
                   /\ \A l \in keys[k] : _safe_label(l) # ValueError(l)
                   /\ tgtNodes' = st.nodes
                   /\ nextNodeId' = st.next
                   /\ id_map' = st.id_map
                   /\ queries' = queries \cup {FetchNodesQuery(spec.node_labels)}
                                          \cup st.queries
                                          \cup {CreateNodesQuery(sorted(keys[k]))}
          /\ fetched' = [fetched EXCEPT !.nodes = @ + Len(batch)]
    /\ Raise("transfer_raised", "Neo4jError")
    /\ UNCHANGED <<srcVars, tgtRels, nextRelId, tgtSchema, caller, batch_size, skip,
                   all_relationships, deleted_count, lastUndo, started, result, yields>>

\* Lines 57-72: the target rejects the create statement of group k of the
\* batch; the statements of the groups before it have been committed.
CreateRelsFails ==
    /\ pc = "copy_rels"
    /\ LET page == FetchRels(spec.relationship_types, skip, spec.batch_size)
           batch == ResolveRows(page, id_map)
           keys == Dedup([i \in 1..Len(batch) |-> batch[i].type])
       IN /\ batch # <<>>
          /\ \E k \in 1..Len(keys) :
                LET st == CreateRelGroups(SubSeq(keys, 1, k - 1), batch,
                                          [nodes |-> tgtNodes, rels |-> tgtRels,
                                           next |-> nextRelId, relationships |-> <<>>,
                                           ok |-> TRUE, queries |-> {}])
                IN /\ st.ok
                   /\ _safe_label(keys[k]) # ValueError(keys[k])
                   /\ tgtRels' = st.rels
                   /\ nextRelId' = st.next
                   /\ queries' = queries \cup {FetchRelsQuery(spec.relationship_types)}
                                          \cup st.queries
                                          \cup {CreateRelsQuery(keys[k])}
          /\ fetched' = [fetched EXCEPT !.rels = @ + Len(page)]
    /\ Raise("transfer_raised", "Neo4jError")
    /\ UNCHANGED <<srcVars, tgtNodes, nextNodeId, tgtSchema, caller, batch_size, id_map,
                   skip, all_relationships, deleted_count, lastUndo, started, result,
                   yields>>

(***************************************************************************)
(* undo(): lines 351-383.                                                  *)
(***************************************************************************)
\* Mutant of UndoMatched: the statement deletes one matching node per call.
UndoMatchedOne(nodes, u) ==
    LET m == {n \in nodes :
                 CypherEq(GetProp(n.props, u.timestamp_key), Str(isoformat(u.timestamp)))}
    IN IF m = {} THEN {} ELSE {CHOOSE n \in m : TRUE}

\* MATCH (n) WHERE n.`timestamp_key` = $datetime
UndoMatched(nodes, u) ==
    {n \in nodes : CypherEq(GetProp(n.props, u.timestamp_key), Str(isoformat(u.timestamp)))}

\* Mutant of DetachDelete: only the outgoing relationships are deleted.
DetachDeleteOutgoing(rels, gone) ==
    {r \in rels : r.start \notin {n.eid : n \in gone}}

\* DETACH DELETE of the nodes gone: their relationships go with them.
DetachDelete(rels, gone) ==
    {r \in rels : r.start \notin {n.eid : n \in gone} /\ r.end \notin {n.eid : n \in gone}}

Undo(u) ==
    /\ pc = "idle"
    /\ started
    /\ LET gone == UndoMatched(tgtNodes, u)
       IN /\ tgtNodes' = tgtNodes \ gone
          /\ tgtRels' = DetachDelete(tgtRels, gone)
          /\ deleted_count' = Cardinality(gone)
          /\ lastUndo' = [spec |-> u, again |-> lastOp = "undo" /\ lastUndo.spec = u]
    /\ lastOp' = "undo"
    /\ queries' = queries \cup {UndoQuery(u.timestamp_key)}
    /\ UNCHANGED <<srcVars, nextNodeId, nextRelId, tgtSchema, pc, caller, batch_size,
                   drivers, copyVars, started, result, yields, error>>

(***************************************************************************)
(* _reset_target_db (lines 171-205) and reset_target_db (lines 477-500).   *)
(***************************************************************************)
RECURSIVE SortedIds(_)
\* The ids of S in ascending order: the store's scan order.
SortedIds(S) ==
    IF S = {} THEN <<>>
    ELSE LET m == CHOOSE x \in S : \A y \in S : x <= y
         IN <<m>> \o SortedIds(S \ {m})

\* MATCH (n) OPTIONAL MATCH (n)-[r]-(): one row per relationship attached to
\* n in either direction, or one row with r null when n has none.
RowsOfNode(n, rels) ==
    LET attached == SortedIds({r.eid : r \in {x \in rels : x.start = n \/ x.end = n}})
    IN IF attached = <<>>
       THEN <<[n |-> n, r |-> None]>>
       ELSE [i \in 1..Len(attached) |-> [n |-> n, r |-> attached[i]]]

RECURSIVE RowsOfNodes(_, _)
RowsOfNodes(ids, rels) ==
    IF ids = <<>> THEN <<>>
    ELSE RowsOfNode(Head(ids), rels) \o RowsOfNodes(Tail(ids), rels)

\* WITH n, r LIMIT $batch_size DELETE n, r RETURN count(n).  The statement
\* fails, and deletes nothing, when a deleted node keeps a relationship that
\* is not deleted with it.
DeleteBatch(nodes, rels, limit) ==
    LET rows == Page(RowsOfNodes(SortedIds({n.eid : n \in nodes}), rels), 0, limit)
        goneN == {rows[i].n : i \in 1..Len(rows)}
        goneR == {rows[i].r : i \in 1..Len(rows)} \ {None}
        left == {r \in rels : r.eid \notin goneR}
        ok == \A r \in left : r.start \notin goneN /\ r.end \notin goneN
    IN [ok |-> ok,
        nodes |-> IF ok THEN {n \in nodes : n.eid \notin goneN} ELSE nodes,
        rels |-> IF ok THEN left ELSE rels,
        count |-> Len(rows)]

\* reset_target_db(creds, batch_size), lines 477-483.
ResetStart ==
    /\ pc = "idle"
    /\ started
    /\ \E b \in BatchSizes : batch_size' = b
    /\ pc' = "reset_constraints"
    /\ caller' = "reset_target_db"
    /\ drivers' = {"reset"}
    /\ UNCHANGED <<srcVars, tgtData, tgtSchema, copyVars, deleted_count, lastUndo,
                   started, lastOp, result, yields, error, queries>>

\* Lines 178-183 and 438-459: one DROP CONSTRAINT per listed name.
ResetDropConstraints ==
    /\ pc = "reset_constraints"
    /\ tgtConstraints' = {}
    /\ pc' = "reset_indexes"
    /\ queries' = queries \cup {ShowConstraintsQuery}
                           \cup {DropConstraintQuery(name) : name \in tgtConstraints}
    /\ UNCHANGED <<srcVars, tgtData, tgtIndexes, caller, batch_size, drivers, copyVars,
                   deleted_count, lastUndo, started, lastOp, result, yields, error>>

\* Lines 185-193 and 461-487: one DROP INDEX per listed name.
ResetDropIndexes ==
    /\ pc = "reset_indexes"
    /\ tgtIndexes' = {}
    /\ pc' = "reset_delete"
    /\ deleted_count' = -1
    /\ queries' = queries \cup {ShowIndexesQuery}
                           \cup {DropIndexQuery(name) : name \in tgtIndexes}
    /\ UNCHANGED <<srcVars, tgtData, tgtConstraints, caller, batch_size, drivers,
                   copyVars, lastUndo, started, lastOp, result, yields, error>>

\* Lines 194-203 and 488-498: one iteration of the deletion loop.
ResetDeleteBatch ==
    /\ pc = "reset_delete"
    /\ deleted_count # 0
    /\ LET d == DeleteBatch(tgtNodes, tgtRels, batch_size)
       IN /\ tgtNodes' = d.nodes
          /\ tgtRels' = d.rels
          /\ IF d.ok
             THEN /\ deleted_count' = d.count
                  /\ UNCHANGED <<pc, lastOp, drivers, error>>
             ELSE /\ Raise(IF caller = "transfer" THEN "transfer_raised" ELSE "reset_raised",
                           "ConstraintError")
                  /\ UNCHANGED deleted_count
    /\ queries' = queries \cup {DeleteBatchQuery}
    /\ UNCHANGED <<srcVars, nextNodeId, nextRelId, tgtSchema, caller, batch_size,
                   copyVars, lastUndo, started, result, yields>>

\* Lines 204-205 and 499-500: the loop ends and the driver is closed.
ResetReturn ==
    /\ pc = "reset_delete"
    /\ deleted_count = 0
    /\ drivers' = {}
    /\ IF caller = "transfer"
       THEN pc' = "open" /\ UNCHANGED lastOp
       ELSE pc' = "idle" /\ lastOp' = "reset"
    /\ UNCHANGED <<srcVars, tgtData, tgtSchema, caller, batch_size, copyVars,
                   deleted_count, lastUndo, started, result, yields, error, queries>>

(***************************************************************************)
(* Specifications.                                                         *)
(***************************************************************************)
\* undo(creds, spec) with the spec the transfer was given.
UndoTransfer ==
    Undo([timestamp_key |-> spec.timestamp_key, timestamp |-> spec.timestamp])

\* One transfer, followed by any number of undo calls with its spec.
Next ==
    \/ TransferStart
    \/ TransferOpen
    \/ ResetDropConstraints
    \/ ResetDropIndexes
    \/ ResetDeleteBatch
    \/ ResetReturn
    \/ CopyNodesPage
    \/ CopyNodesDone
    \/ CopyRelsPage
    \/ CopyRelsDone
    \/ UndoTransfer

Spec == Init /\ [][Next]_vars

\* The graphs a database holds when undo or reset_target_db is called on it.
DbNodeKinds ==
    NodeKinds \cup
    {[labels |-> {"Person"}, props |-> {<<timestamp_key_default, Str(isoformat(T1))>>}],
     [labels |-> {"Movie"}, props |-> {<<timestamp_key_default, DateTimeValue(T1)>>}]}

DbNodes ==
    {{[eid |-> i, labels |-> ks[i].labels, props |-> ks[i].props] : i \in 1..Len(ks)} :
        ks \in SeqsUpTo(DbNodeKinds, MaxSize)}

DbRels(nodes) ==
    {{[eid |-> i, type |-> rs[i].type, start |-> rs[i].start, end |-> rs[i].end,
       props |-> rs[i].props] : i \in 1..Len(rs)} :
        rs \in SeqsUpTo({[type |-> k.type, start |-> a.eid, end |-> b.eid, props |-> k.props] :
                            k \in RelKinds, a \in nodes, b \in nodes},
                        MaxSize - Cardinality(nodes))}

\* Any database, and no transfer.
InitDb ==
    /\ srcNodes = <<>>
    /\ srcRels = <<>>
    /\ rowTypes = StoredTypes(srcRels)
    /\ spec = [timestamp_key |-> timestamp_key_default, timestamp |-> T1,
               node_labels |-> <<>>, relationship_types |-> <<>>,
               batch_size |-> Absent, reset_target |-> FALSE]
    /\ tgtNodes \in DbNodes
    /\ tgtRels \in DbRels(tgtNodes)
    /\ prior = [nodes |-> tgtNodes, rels |-> tgtRels]
    /\ nextNodeId = MaxEid(tgtNodes) + 1
    /\ nextRelId = MaxEid(tgtRels) + 1
    /\ tgtConstraints = {"person_name_unique"}
    /\ tgtIndexes = {"movie_title"}
    /\ pc = "idle"
    /\ caller = "none"
    /\ batch_size = 1
    /\ drivers = {}
    /\ id_map = <<>>
    /\ skip = 0
    /\ all_relationships = <<>>
    /\ deleted_count = 0
    /\ lastUndo = NoUndo
    /\ started = TRUE
    /\ lastOp = "none"
    /\ result = NoResult
    /\ variant = "transfer"
    /\ yields = <<>>
    /\ error = "none"
    /\ queries = {}
    /\ fetched = [nodes |-> 0, rels |-> 0]

UndoAny == \E u \in UndoSpecs : Undo(u)

\* Any number of undo calls on any database.
NextDb == UndoAny

SpecDb == InitDb /\ [][NextDb]_vars

\* Any number of reset_target_db calls on any database.
NextReset ==
    \/ ResetStart
    \/ ResetDropConstraints
    \/ ResetDropIndexes
    \/ ResetDeleteBatch
    \/ ResetReturn

SpecReset == InitDb /\ [][NextReset]_vars


\* The source graphs of at most n nodes and relationships together, made of
\* the given kinds.
SourceNodesOf(kinds, n) ==
    {[i \in 1..Len(ks) |-> [eid |-> i, labels |-> ks[i].labels, props |-> ks[i].props]] :
        ks \in SeqsUpTo(kinds, n)}

SourceRelsOf(nodes, kinds, n) ==
    SeqsUpTo({[type |-> k.type, start |-> a, end |-> b, props |-> k.props] :
                 k \in kinds, a \in 1..Len(nodes), b \in 1..Len(nodes)},
             n - Len(nodes))

\* The state in which transfer or transfer_generator is called.
BeforeTheCall ==
    /\ prior \in PriorTargets
    /\ tgtNodes = prior.nodes
    /\ tgtRels = prior.rels
    /\ nextNodeId = MaxEid(prior.nodes) + 1
    /\ nextRelId = MaxEid(prior.rels) + 1
    /\ tgtConstraints = {"person_name_unique"}
    /\ tgtIndexes = {"movie_title"}
    /\ pc = "idle"
    /\ caller = "none"
    /\ batch_size = 1
    /\ drivers = {}
    /\ id_map = <<>>
    /\ skip = 0
    /\ all_relationships = <<>>
    /\ deleted_count = 0
    /\ lastUndo = NoUndo
    /\ started = FALSE
    /\ lastOp = "none"
    /\ result = NoResult
    /\ yields = <<>>
    /\ error = "none"
    /\ queries = {}
    /\ fetched = [nodes |-> 0, rels |-> 0]

InitEnv ==
    /\ srcNodes \in SourceNodesOf(NodeKinds, MaxSize - 1)
    /\ srcRels \in SourceRelsOf(srcNodes, RelKinds, MaxSize - 1)
    /\ rowTypes = StoredTypes(srcRels)
    /\ spec \in TransferSpec
    /\ variant \in {"transfer", "generator"}
    /\ BeforeTheCall

\* One call of transfer or of transfer_generator, consumed or abandoned,
\* against databases that can fail at every statement.
NextEnv ==
    \/ TransferStart
    \/ ValidateFails
    \/ TransferOpen
    \/ OpenFails
    \/ ResetDropConstraints
    \/ ResetDropIndexes
    \/ ResetDeleteBatch
    \/ ResetReturn
    \/ CopyNodesPage
    \/ CreateNodesFails
    \/ SourceFails
    \/ CopyNodesDone
    \/ GenYieldNodes
    \/ GenResume
    \/ GenClose
    \/ CopyRelsPage
    \/ CreateRelsFails
    \/ CopyRelsDone
    \/ GenYieldFinal
    \/ GenFinish

SpecEnv == InitEnv /\ [][NextEnv]_vars


\* Source graphs with names that are no identifiers: a node that has such a
\* label beside a plain one, and a relationship of such a type.
NamedNodeKinds ==
    NodeKinds \cup {[labels |-> {"Person", "My Label"}, props |-> NoProps]}

NamedRelKinds ==
    RelKinds \cup {[type |-> "HAS-A", props |-> NoProps]}

InitNames ==
    /\ srcNodes \in SourceNodesOf(NamedNodeKinds, MaxSize - 1)
    /\ srcRels \in SourceRelsOf(srcNodes, NamedRelKinds, MaxSize - 1)
    /\ rowTypes = StoredTypes(srcRels)
    /\ spec \in {sp \in TransferSpec : ~sp.reset_target /\ sp.batch_size # Absent}
    /\ variant = "transfer"
    /\ BeforeTheCall

\* One call of transfer on a source with such names.
NextNames ==
    \/ TransferStart
    \/ TransferOpen
    \/ CopyNodesPage
    \/ CopyNodesDone
    \/ CopyRelsPage
    \/ CopyRelsDone

SpecNames == InitNames /\ [][NextNames]_vars


\* The orders in which the source can return its nodes.
Permutations(s) ==
    {p \in [1..Len(s) -> SeqToSet(s)] : \A i, j \in 1..Len(s) : i # j => p[i] # p[j]}

\* Lines 88-105: the page queries have no ORDER BY; between two of them the
\* source changes the order in which it returns its nodes.
Reorder ==
    /\ pc = "copy_nodes"
    /\ \E p \in Permutations(srcNodes) : p # srcNodes /\ srcNodes' = p
    /\ UNCHANGED <<srcRels, rowTypes, spec, prior, variant, tgtData, tgtSchema, pc, caller,
                   batch_size, drivers, copyVars, deleted_count, lastUndo, started,
                   lastOp, result, yields, error, queries>>

InitOrder ==
    /\ srcNodes \in SourceNodesOf(NodeKinds, MaxSize - 1)
    /\ srcRels \in SourceRelsOf(srcNodes, RelKinds, MaxSize - 1)
    /\ rowTypes = StoredTypes(srcRels)
    /\ spec \in {sp \in TransferSpec : ~sp.reset_target /\ sp.batch_size # Absent}
    /\ variant = "transfer"
    /\ BeforeTheCall

\* One call of transfer on a source that returns its nodes in no fixed order.
NextOrder ==
    \/ TransferStart
    \/ TransferOpen
    \/ CopyNodesPage
    \/ Reorder
    \/ CopyNodesDone
    \/ CopyRelsPage
    \/ CopyRelsDone

SpecOrder == InitOrder /\ [][NextOrder]_vars


\* Lines 135 and 144: the type of a fetched row is whatever the driver returns
\* in the type column; an inconsistent driver (or a mutation under the query)
\* returns a type other than the stored one the WHERE clause matched.
InitTypes ==
    /\ srcNodes \in SourceNodesOf(NodeKinds, MaxSize - 1)
    /\ srcRels \in SourceRelsOf(srcNodes, RelKinds, MaxSize - 1)
    /\ rowTypes \in [1..Len(srcRels) -> {k.type : k \in RelKinds}]
    /\ spec \in {sp \in TransferSpec : ~sp.reset_target /\ sp.batch_size # Absent}
    /\ variant = "transfer"
    /\ BeforeTheCall

\* One call of transfer on a source whose rows can disagree with the types
\* they were fetched by.
NextTypes ==
    \/ TransferStart
    \/ TransferOpen
    \/ CopyNodesPage
    \/ CopyNodesDone
    \/ CopyRelsPage
    \/ CopyRelsDone

SpecTypes == InitTypes /\ [][NextTypes]_vars


(***************************************************************************)
(* Properties.                                                             *)
(***************************************************************************)
Range(f) == {f[x] : x \in DOMAIN f}

\* The target nodes the transfer created.
CreatedNodes == {n \in tgtNodes : n.eid \notin {p.eid : p \in prior.nodes}}

\* The target relationships the transfer created and that still exist.
CreatedRels ==
    {r \in tgtRels : \E i \in DOMAIN all_relationships : all_relationships[i].rel_id = r.eid}

Shape(r) == [type |-> r.type, start |-> r.start, end |-> r.end, props |-> r.props]

\* Source relationships the type filter selects and whose endpoints are keys
\* of the Identifier Map.
InTypeFilter(r) ==
    spec.relationship_types = <<>> \/ \E i \in DOMAIN spec.relationship_types :
                                          spec.relationship_types[i] = r.type

Copyable ==
    {i \in DOMAIN srcRels : /\ InTypeFilter(srcRels[i])
                            /\ srcRels[i].start \in DOMAIN id_map
                            /\ srcRels[i].end \in DOMAIN id_map}

\* What source relationship i must look like in the target.
Image(i) ==
    [type |-> srcRels[i].type, start |-> id_map[srcRels[i].start],
     end |-> id_map[srcRels[i].end], props |-> srcRels[i].props]

\* C1: when the relationship copy has returned, the target holds exactly one
\* created relationship for every source relationship that passes the type
\* filter and has both endpoints in the Identifier Map, wherever in the pages
\* the dropped relationships lie.
C1_EveryCopyableRelationshipCopied ==
    lastOp = "transfer" =>
        /\ Len(all_relationships) = Cardinality(Copyable)
        /\ \A i \in Copyable :
            Cardinality({r \in CreatedRels : Shape(r) = Image(i)})
                = Cardinality({j \in Copyable : Image(j) = Image(i)})

\* Source nodes the label filter excludes.
Excluded ==
    {i \in DOMAIN srcNodes :
        /\ spec.node_labels # <<>>
        /\ \A k \in DOMAIN spec.node_labels : spec.node_labels[k] \notin srcNodes[i].labels}

\* C2: no relationship created by the transfer touches anything but the copy
\* of a source node that the label filter admits; an excluded source node has
\* no entry in the Identifier Map, so none of its relationships is copied.
C2_NoRelationshipOfExcludedNode ==
    /\ \A i \in Excluded : i \notin DOMAIN id_map
    /\ \A r \in CreatedRels :
        /\ r.start \in {id_map[s] : s \in (DOMAIN id_map) \ Excluded}
        /\ r.end \in {id_map[s] : s \in (DOMAIN id_map) \ Excluded}

\* C2 witness: a transfer returned successfully although a relationship the
\* type filter selects had an excluded endpoint, and it copied another one.
C2_Witness ==
    /\ lastOp = "transfer"
    /\ result.was_successful
    /\ CreatedRels # {}
    /\ \E i \in DOMAIN srcRels :
        /\ InTypeFilter(srcRels[i])
        /\ srcRels[i].start \in Excluded \/ srcRels[i].end \in Excluded

C4_RelationshipsLandOnMappedNodes ==
    \A r \in CreatedRels :
        /\ \E i \in Copyable : Image(i) = Shape(r)
        /\ Cardinality({q \in CreatedRels : Shape(q) = Shape(r)})
               <= Cardinality({i \in Copyable : Image(i) = Shape(r)})

\* C4 witness: a copied relationship between two different nodes whose
\* target ids differ from their source ids.
C4_Witness ==
    \E r \in CreatedRels : \E i \in Copyable :
        /\ Image(i) = Shape(r)
        /\ r.start # r.end
        /\ r.start # srcRels[i].start
        /\ r.props # NoProps

CopiedNodes == {n \in tgtNodes : n.eid \in Range(id_map)}

\* The undo() call that has just returned was given the spec of the transfer.
UndoneWithTransferSpec ==
    /\ lastOp = "undo"
    /\ result.was_successful
    /\ lastUndo.spec.timestamp_key = spec.timestamp_key
    /\ lastUndo.spec.timestamp = spec.timestamp

\* C6: once undo has run with the spec of a completed transfer, the target
\* holds none of the nodes and relationships the transfer created, and no
\* node carrying the spec's timestamp under timestamp_key.
C6_UndoRemovesTheTransfer ==
    UndoneWithTransferSpec =>
        /\ CopiedNodes = {}
        /\ CreatedRels = {}
        /\ \A n \in tgtNodes :
            GetProp(n.props, spec.timestamp_key) # Str(isoformat(spec.timestamp))

\* C7: every node the transfer created carries, under timestamp_key, the
\* spec's timestamp.
C7_CreatedNodesAreTagged ==
    lastOp = "transfer" =>
        \A n \in CopiedNodes :
            GetProp(n.props, spec.timestamp_key) = Str(isoformat(spec.timestamp))

\* A step of undo() that returns.
UndoReturns == pc = "idle" /\ pc' = "idle" /\ lastOp' = "undo"

\* The nodes whose property named key is the string text.
Tagged(nodes, key, text) == {n \in nodes : <<key, <<"STRING", text>>>> \in n.props}

\* C8: a call of undo deletes the nodes whose timestamp_key property is the
\* ISO-8601 string of the spec's timestamp and the relationships that start
\* or end at one of them, reports their number, and changes no other node
\* and no other relationship.
C8_UndoDeletesExactlyTheTagged ==
    [][UndoReturns =>
        LET u == lastUndo'.spec
            gone == Tagged(tgtNodes, u.timestamp_key,
                           IF u.timestamp.micro = 0
                           THEN <<u.timestamp.day>>
                           ELSE <<u.timestamp.day, u.timestamp.micro>>)
            ids == {n.eid : n \in gone}
        IN /\ tgtNodes' = tgtNodes \ gone
           /\ tgtRels' = {r \in tgtRels : r.start \notin ids /\ r.end \notin ids}
           /\ deleted_count' = Cardinality(gone)]_vars

\* C8 witness: undo deleted a node and a relationship and left a node and a
\* relationship in place.
C8_Witness ==
    /\ lastOp = "undo"
    /\ deleted_count > 0
    /\ tgtNodes # {}
    /\ tgtRels # {}
    /\ Cardinality(tgtRels) < Cardinality(prior.rels)
    /\ tgtIndexes # {}

\* C9: an undo call that directly follows an undo call with the same spec
\* returns, deletes nothing and leaves the database as it was.
C9_UndoIsIdempotent ==
    [][(UndoReturns /\ lastOp = "undo" /\ lastUndo'.spec = lastUndo.spec) =>
        /\ tgtNodes' = tgtNodes
        /\ tgtRels' = tgtRels
        /\ deleted_count' = 0]_vars

\* C9 witness: the second of two undo calls with the same spec has returned,
\* on a database from which the first one deleted nodes.
C9_Witness ==
    /\ lastOp = "undo"
    /\ lastUndo.again
    /\ deleted_count = 0
    /\ tgtIndexes # {}
    /\ Tagged(prior.nodes, lastUndo.spec.timestamp_key, isoformat(lastUndo.spec.timestamp)) # {}

\* C10: the reset never raises, and when it has returned the target holds no
\* node and no relationship.
C10_ResetEmptiesTheTarget ==
    /\ lastOp # "reset_raised"
    /\ lastOp = "reset" => (tgtNodes = {} /\ tgtRels = {})

\* The first element ids the target gives out during the call.
FirstNodeId == MaxEid(prior.nodes) + 1
FirstRelId == MaxEid(prior.rels) + 1

\* C11: under a spec with reset_target set, in transfer and in
\* transfer_generator, an index is dropped only when no constraint is left,
\* data is deleted only when no constraint and no index is left, a node is
\* created only when the target holds no constraint, no index, none of its
\* earlier nodes and relationships and no created relationship, and a
\* relationship is created only when every source node the label filter
\* admits has its copy: reset, then node copy, then relationship copy.
C11_ResetThenNodesThenRelationships ==
    [][spec.reset_target =>
        /\ (tgtIndexes' # tgtIndexes) => tgtConstraints = {}
        /\ (tgtNodes \ tgtNodes' # {} \/ tgtRels \ tgtRels' # {}) =>
               (tgtConstraints = {} /\ tgtIndexes = {})
        /\ (nextNodeId' # nextNodeId) =>
               /\ tgtConstraints = {} /\ tgtIndexes = {}
               /\ tgtNodes \cap prior.nodes = {} /\ tgtRels = {}
               /\ nextRelId = FirstRelId
        /\ (nextRelId' # nextRelId) =>
               /\ DOMAIN id_map = (DOMAIN srcNodes) \ Excluded
               /\ \A s \in DOMAIN id_map : \E n \in tgtNodes : n.eid = id_map[s]
               /\ nextNodeId' = nextNodeId]_vars

\* C11 witness: a transfer_generator call with reset_target set has been
\* consumed to its end, on a target that held data, a constraint and an index,
\* and has created nodes and relationships.
C11_Witness ==
    /\ spec.reset_target
    /\ variant = "generator"
    /\ lastOp = "transfer"
    /\ prior.nodes # {}
    /\ tgtConstraints = {} /\ tgtIndexes = {}
    /\ nextNodeId > FirstNodeId
    /\ nextRelId > FirstRelId

\* C12: when the node copy loop has ended, the rows its pages returned are as
\* many as the source nodes the label filter admits, and when the
\* relationship copy loop has ended, the rows its pages returned are as many
\* as the source relationships the type filter admits.
C12_LoopsFetchEveryMatchingRecord ==
    /\ (pc = "copy_rels" \/ lastOp = "transfer") =>
           fetched.nodes = Len(srcNodes) - Cardinality(Excluded)
    /\ lastOp = "transfer" =>
           fetched.rels = Cardinality({i \in DOMAIN srcRels : InTypeFilter(srcRels[i])})

\* C13: when the validation of the source or of the target credentials has
\* failed, the call has raised, has returned and yielded nothing, has issued
\* no statement to either database (no reset statement, no page query, no
\* create statement), and the target is as it was.
C13_NothingMovesWithoutValidCredentials ==
    error \in {"SourceUnavailable", "TargetUnavailable"} =>
        /\ lastOp = "transfer_raised"
        /\ result = NoResult
        /\ yields = <<>>
        /\ queries = {}
        /\ tgtNodes = prior.nodes
        /\ tgtRels = prior.rels
        /\ tgtConstraints # {}
        /\ tgtIndexes # {}
        /\ drivers = {}

\* C13 witness: transfer_generator, under a spec with reset_target set,
\* raised on its first step because the target could not be reached.
C13_Witness ==
    /\ error = "TargetUnavailable"
    /\ pc = "idle"
    /\ variant = "generator"
    /\ spec.reset_target
    /\ spec.batch_size # Absent

\* A step in which a statement of the node copy or of the relationship copy
\* fails.
BatchFails == pc \in {"copy_nodes", "copy_rels"} /\ pc' = "idle" /\ error' = "Neo4jError"

\* C14: the step in which a batch fails raises to the caller, returns no
\* UploadResult and yields none, and takes nothing back: the target keeps all
\* it held, and gains exactly the rows of the groups of the running page
\* whose create statement completed before the failing one, each group as a
\* whole; the group that failed adds nothing.  After the failure nothing
\* changes the target again (no retry, no rollback).
C14_FailedBatchLeavesCompletedOnes ==
    [][/\ BatchFails =>
            LET newN == tgtNodes' \ tgtNodes
                newR == tgtRels' \ tgtRels
                nodeRows == FetchNodes(spec.node_labels, skip, spec.batch_size)
                relRows == ResolveRows(FetchRels(spec.relationship_types, skip,
                                                 spec.batch_size), id_map)
            IN /\ lastOp' = "transfer_raised"
               /\ result' = NoResult
               /\ yields' = yields
               /\ tgtNodes \subseteq tgtNodes'
               /\ tgtRels \subseteq tgtRels'
               /\ pc = "copy_nodes" =>
                    /\ newR = {}
                    /\ \A n \in newN :
                        Cardinality({m \in newN : m.labels = n.labels /\ m.props = n.props})
                          = Cardinality({i \in DOMAIN nodeRows :
                                            /\ nodeRows[i].labels = n.labels
                                            /\ nodeRows[i].props = n.props})
                    /\ \A i \in DOMAIN nodeRows :
                        (\E n \in newN : n.labels = nodeRows[i].labels) =>
                            \E n \in newN : /\ n.labels = nodeRows[i].labels
                                            /\ n.props = nodeRows[i].props
                    /\ Cardinality(newN) < Len(nodeRows) \/ nodeRows = <<>>
               /\ pc = "copy_rels" =>
                    /\ newN = {}
                    /\ \A r \in newR :
                        Cardinality({q \in newR : Shape(q) = Shape(r)})
                          = Cardinality({i \in DOMAIN relRows : relRows[i] = Shape(r)})
                    /\ \A i \in DOMAIN relRows :
                        (\E r \in newR : r.type = relRows[i].type) =>
                            \E r \in newR : Shape(r) = relRows[i]
                    /\ Cardinality(newR) < Len(relRows) \/ relRows = <<>>
       /\ (pc = "idle" /\ error = "Neo4jError") =>
            UNCHANGED <<tgtNodes, tgtRels, result, yields>>]_vars

\* C14 witness: transfer raised on a failed batch of the relationship copy
\* after it had created nodes and relationships, which the target still
\* holds.
C14_Witness ==
    /\ error = "Neo4jError"
    /\ pc = "idle"
    /\ variant = "transfer"
    /\ CreatedNodes # {}
    /\ \E r \in tgtRels : r.eid >= FirstRelId

\* C15: whenever no call is running (the call returned, raised, or its
\* generator was closed or dropped), no driver and no session is open.
C15_NoDriverLeftOpen ==
    pc = "idle" => drivers = {}

\* C16: transfer_generator yields at most two results.  While it is
\* suspended at the first, that one is all it has yielded; every source node
\* the label filter admits has its copy, no relationship has been created,
\* and the result reports the nodes created, no relationship and no
\* finished_at.  Once it has yielded the second (and when it has been
\* consumed to its end) it has yielded exactly two; the second reports the
\* same nodes_created, the relationships created, their sum as records_total,
\* and a finished_at.
C16_TwoResults ==
    variant = "generator" =>
        /\ Len(yields) <= 2
        /\ pc \in {"idle", "open", "copy_nodes"} /\ lastOp = "none" => yields = <<>>
        /\ pc = "yield_nodes" =>
            /\ Len(yields) = 1
            /\ DOMAIN id_map = (DOMAIN srcNodes) \ Excluded
            /\ yields[1].nodes_created = Cardinality(CreatedNodes)
            /\ yields[1].nodes_created = nextNodeId - FirstNodeId
            /\ nextRelId = FirstRelId
        /\ Len(yields) >= 1 =>
            /\ yields[1].relationships_created = 0
            /\ ~yields[1].finished
            /\ yields[1].was_successful
        /\ (pc = "yield_final" \/ lastOp = "transfer") =>
            /\ Len(yields) = 2
            /\ yields[2].nodes_created = yields[1].nodes_created
            /\ yields[2].relationships_created = nextRelId - FirstRelId
            /\ yields[2].records_total
                   = yields[2].nodes_created + yields[2].relationships_created
            /\ yields[2].finished
            /\ yields[2].was_successful

\* C16 witness: transfer_generator was consumed to its end and its second
\* result reports more than one node and a relationship.
C16_Witness ==
    /\ variant = "generator"
    /\ lastOp = "transfer"
    /\ Len(yields) = 2
    /\ yields[2].nodes_created > 1
    /\ yields[2].relationships_created > 0

\* The rows of the running page of the node copy, the rows of the running
\* page of the relationship copy, and those of them that are handed to the
\* batched create.
NodeRows == FetchNodes(spec.node_labels, skip, spec.batch_size)
RelPage == FetchRels(spec.relationship_types, skip, spec.batch_size)
RelRows == ResolveRows(RelPage, id_map)

BadNodeRow(row) == \E l \in row.labels : ~isidentifier(l)
BadRelRow(row) == ~isidentifier(row.type)

\* The step raises ValueError out of transfer.
RaisesNamingError ==
    pc' = "idle" /\ lastOp' = "transfer_raised" /\ error' = "ValueError"

\* No statement issued so far has a name in its text that is no identifier.
NoBadNameIssued ==
    \A q \in queries' : \A i \in DOMAIN q.text :
        q.text[i].kind # "text" => isidentifier(q.text[i].s)

\* C17 as stated: a step of either copy loop whose page holds a name that is
\* no bare identifier raises, no statement issued has that name in its text,
\* and the step creates no node and no relationship; nothing is created
\* afterwards.
C17_NamingErrorCreatesNothingOfThePage ==
    [][/\ (pc = "copy_nodes" /\ \E i \in DOMAIN NodeRows : BadNodeRow(NodeRows[i])) =>
            /\ RaisesNamingError
            /\ NoBadNameIssued
            /\ UNCHANGED <<tgtNodes, tgtRels>>
       /\ (pc = "copy_rels" /\ \E i \in DOMAIN RelPage : BadRelRow(RelPage[i])) =>
            /\ RaisesNamingError
            /\ NoBadNameIssued
            /\ UNCHANGED <<tgtNodes, tgtRels>>
       /\ (pc = "idle" /\ error = "ValueError") => UNCHANGED <<tgtNodes, tgtRels>>]_vars

\* The first row of rows that bad holds of.
FirstBad(rows, bad(_)) ==
    CHOOSE i \in DOMAIN rows : bad(rows[i]) /\ \A j \in 1..(i - 1) : ~bad(rows[j])

\* C17 amended: a step of either copy loop whose batch (for relationships:
\* the rows of the page with both endpoints mapped) holds a name that is no
\* bare identifier raises, and no statement issued has that name in its
\* text.  The step creates the rows of the groups (label set, type) that
\* first occur in the batch before the first row with such a name, each
\* group as a whole, and nothing else: nothing of the group with the name,
\* of a group after it, or of a later page; nothing is created afterwards.
C17_NamingErrorStopsAtTheGroup ==
    [][/\ (pc = "copy_nodes" /\ \E i \in DOMAIN NodeRows : BadNodeRow(NodeRows[i])) =>
            LET newN == tgtNodes' \ tgtNodes
                b == FirstBad(NodeRows, BadNodeRow)
                Before(L) == \E j \in 1..(b - 1) : NodeRows[j].labels = L
            IN /\ RaisesNamingError
               /\ NoBadNameIssued
               /\ tgtRels' = tgtRels
               /\ tgtNodes \subseteq tgtNodes'
               /\ \A n \in newN : \E i \in DOMAIN NodeRows :
                    NodeRows[i].labels = n.labels /\ NodeRows[i].props = n.props
               /\ \A i \in DOMAIN NodeRows :
                    Cardinality({n \in newN : /\ n.labels = NodeRows[i].labels
                                             /\ n.props = NodeRows[i].props})
                      = IF Before(NodeRows[i].labels)
                        THEN Cardinality({j \in DOMAIN NodeRows :
                                             /\ NodeRows[j].labels = NodeRows[i].labels
                                             /\ NodeRows[j].props = NodeRows[i].props})
                        ELSE 0
       /\ (pc = "copy_rels" /\ \E i \in DOMAIN RelRows : BadRelRow(RelRows[i])) =>
            LET newR == tgtRels' \ tgtRels
                b == FirstBad(RelRows, BadRelRow)
                Before(t) == \E j \in 1..(b - 1) : RelRows[j].type = t
            IN /\ RaisesNamingError
               /\ NoBadNameIssued
               /\ tgtNodes' = tgtNodes
               /\ tgtRels \subseteq tgtRels'
               /\ \A r \in newR : \E i \in DOMAIN RelRows : RelRows[i] = Shape(r)
               /\ \A i \in DOMAIN RelRows :
                    Cardinality({r \in newR : Shape(r) = RelRows[i]})
                      = IF Before(RelRows[i].type)
                        THEN Cardinality({j \in DOMAIN RelRows : RelRows[j] = RelRows[i]})
                        ELSE 0
       /\ (pc = "idle" /\ error = "ValueError") => UNCHANGED <<tgtNodes, tgtRels>>]_vars

\* C17 witness: transfer raised ValueError on a page of the node copy of
\* which it had created a node.
C17_Witness ==
    /\ error = "ValueError"
    /\ pc = "idle"
    /\ all_relationships = <<>>
    /\ \E i \in DOMAIN NodeRows :
        /\ NodeRows[i].eid \in DOMAIN id_map
        /\ \E j \in DOMAIN NodeRows : j > i /\ BadNodeRow(NodeRows[j])

\* The element ids of the source nodes the label filter admits.
MatchingIds == {n.eid : n \in {m \in SeqToSet(srcNodes) : NodeMatches(m, spec.node_labels)}}

\* C18: whatever the order in which the source returned its nodes to each
\* page query, when the node copy has ended every source node the label
\* filter admits is a key of the Identifier Map, the target has one created
\* node for each, and the transfer created no other node.
C18_EveryNodeOnceInAnyOrder ==
    (pc = "copy_rels" \/ lastOp = "transfer") =>
        /\ DOMAIN id_map = MatchingIds
        /\ Cardinality(CreatedNodes) = Cardinality(MatchingIds)
        /\ \A s \in DOMAIN id_map : \E n \in CreatedNodes : n.eid = id_map[s]

\* C19: in the text of every statement that transfer, the reset or undo has
\* issued, everything that is not text of the template is a label or a
\* relationship type that _safe_label validated; the undo timestamp key and
\* the names of the dropped constraints and indexes are not in the text.
C19_OnlyValidatedNamesInTheText ==
    \A q \in queries : \A i \in DOMAIN q.text :
        \/ q.text[i].kind = "text"
        \/ q.text[i].kind = "identifier" /\ isidentifier(q.text[i].s)

\* C20: no step of _copy_relationships, with the _batch_create_relationships
\* it calls, adds, removes or changes an entry of the Identifier Map: from the
\* end of the node copy to the return of transfer the map stays as it is.
C20_RelationshipCopyLeavesTheMap ==
    [][pc = "copy_rels" => id_map' = id_map]_vars

\* C20 witness: a transfer returned after a relationship copy of more than
\* one page, with a map of more than one entry.
C20_Witness ==
    /\ lastOp = "transfer"
    /\ Len(all_relationships) > spec.batch_size
    /\ Cardinality(DOMAIN id_map) > 1


(***************************************************************************)
(* C21: a fetched relationship whose type is not the type it was fetched   *)
(* by.                                                                     *)
(***************************************************************************)
\* The rows of the page the relationship loop fetches next whose type column
\* is none of the types of the filter they were fetched by.
MismatchedRows ==
    LET page == FetchRels(spec.relationship_types, skip, spec.batch_size)
    IN {i \in 1..Len(page) : /\ spec.relationship_types # <<>>
                             /\ page[i].type \notin SeqToSet(spec.relationship_types)}

\* C21: when the relationship loop fetches a row whose recorded type is not
\* the type it was fetched by, that iteration raises and transfer is aborted,
\* and no relationship is created by it: none appears in the target under a
\* type that was not asked for.
C21_TypeMismatchFailsFast ==
    [][(pc = "copy_rels" /\ MismatchedRows # {})
          => /\ pc' = "idle"
             /\ lastOp' = "transfer_raised"
             /\ error' # "none"
             /\ tgtRels' = tgtRels]_vars


(***************************************************************************)
(* C22: the counts of the returned UploadResult.                           *)
(***************************************************************************)
\* The target relationships that were not there when transfer was called.
NewRels == {r \in tgtRels : r.eid \notin {p.eid : p \in prior.rels}}

EveryNodeCopied ==
    /\ DOMAIN id_map = DOMAIN srcNodes
    /\ \A s \in DOMAIN srcNodes :
        \E n \in CreatedNodes : n.eid = id_map[s] /\ n.labels = srcNodes[s].labels

\* The source relationships of any type whose two endpoints are keys of the
\* Identifier Map.
MappedRels ==
    {i \in DOMAIN srcRels : /\ srcRels[i].start \in DOMAIN id_map
                            /\ srcRels[i].end \in DOMAIN id_map}

\* C23: when transfer has returned, an empty node_labels has had every source
\* node copied, whatever its labels and also when it has none, and an empty
\* relationship_types has had every source relationship with two mapped
\* endpoints copied, whatever its type.
C23_EmptyFilterCopiesEverything ==
    lastOp = "transfer" =>
        /\ spec.node_labels = <<>> => EveryNodeCopied
        /\ spec.relationship_types = <<>> =>
              /\ Len(all_relationships) = Cardinality(MappedRels)
              /\ \A i \in MappedRels : \E r \in CreatedRels : Shape(r) = Image(i)

====
